---- MODULE Spec2Model ----
(***************************************************************************)
(* slogtfmt: a slog.Handler that renders a record as one tab-separated     *)
(* text line.  A Go string or byte slice is a sequence of symbols; a       *)
(* symbol is a TLA+ string standing for a run of bytes that the code never *)
(* splits ("INFO", "__tag__", one character, ...).                         *)
(***************************************************************************)
EXTENDS Integers, Sequences, FiniteSets, TLC

VARIABLES handlers, bufPool, call, calls, mutexes, arrays

\* What the specifications of calls made one after the other leave alone:
\* the calls in progress of the goroutines, the locked mutexes and the
\* backing arrays of the slices.
conc == <<calls, mutexes, arrays>>

vars == <<handlers, bufPool, call, calls, mutexes, arrays>>

(***************************************************************************)
(* Bounds of the model.                                                    *)
(***************************************************************************)
MaxHandlers == 3
MaxFrames == 2

(***************************************************************************)
(* Program constants.                                                      *)
(***************************************************************************)
LevelDebug == -4
LevelInfo == 0
LevelWarn == 4
LevelError == 8

initialBufferSize == 1024
maxBufferSize == 16384

tagKeyName == <<"__tag__">>

RFC3339Milli == <<"2006-01-02T15:04:05.000Z07:00">>
RFC3339Micro == <<"2006-01-02T15:04:05.000000Z07:00">>

\* A nil pointer or interface is the empty sequence, a set one is <<v>>.
Nil == <<>>

Some(v) == <<v>>

(***************************************************************************)
(* time.Time: an instant and a location.  Instant 0 is the zero time.      *)
(***************************************************************************)
Time(inst, loc) == [inst |-> inst, loc |-> loc]

ZeroTime == Time(0, "UTC")

IsZero(t) == t.inst = 0

UTC(t) == [t EXCEPT !.loc = "UTC"]

InstantName(i) == CASE i = 0 -> "0001-01-01" [] i = 1 -> "2024-07-01" [] OTHER -> "2024-07-02"

\* t.Format(layout): the layout applied to the instant as seen in t's location.
Format(t, layout) == layout \o <<"@", InstantName(t.inst), t.loc>>

(***************************************************************************)
(* strconv: AppendInt, AppendBool, AppendQuote.                            *)
(***************************************************************************)
Digit(d) ==
    CASE d = 0 -> "0" [] d = 1 -> "1" [] d = 2 -> "2" [] d = 3 -> "3" [] d = 4 -> "4"
      [] d = 5 -> "5" [] d = 6 -> "6" [] d = 7 -> "7" [] d = 8 -> "8" [] OTHER -> "9"

RECURSIVE FormatUint(_)
FormatUint(n) == IF n < 10 THEN <<Digit(n)>> ELSE FormatUint(n \div 10) \o <<Digit(n % 10)>>

FormatInt(n) == IF n < 0 THEN <<"-">> \o FormatUint(0 - n) ELSE FormatUint(n)

FormatBool(b) == IF b THEN <<"true">> ELSE <<"false">>

EscapeSym(c) ==
    CASE c = "\"" -> <<"\\", "\"">>
      [] c = "\\" -> <<"\\", "\\">>
      [] c = "\n" -> <<"\\", "n">>
      [] c = "\t" -> <<"\\", "t">>
      [] OTHER -> <<c>>

RECURSIVE Escape(_)
Escape(s) == IF s = <<>> THEN <<>> ELSE EscapeSym(Head(s)) \o Escape(Tail(s))

Quote(s) == <<"\"">> \o Escape(s) \o <<"\"">>

(***************************************************************************)
(* slog.Level.String().                                                    *)
(***************************************************************************)
LevelStr(base, val) ==
    IF val = 0 THEN <<base>>
    ELSE <<base>> \o (IF val > 0 THEN <<"+">> ELSE <<>>) \o FormatInt(val)

LevelString(l) ==
    IF l < LevelInfo THEN LevelStr("DEBUG", l - LevelDebug)
    ELSE IF l < LevelWarn THEN LevelStr("INFO", l - LevelInfo)
    ELSE IF l < LevelError THEN LevelStr("WARN", l - LevelWarn)
    ELSE LevelStr("ERROR", l - LevelError)

(***************************************************************************)
(* slog.Attr and slog.Value.  Every attribute carries all payload fields;  *)
(* Kind says which one is meant.  The zero Value is KindAny holding nil.   *)
(***************************************************************************)
Attr(key, kind, str, int, bool, time, group) ==
    [Key |-> key, Kind |-> kind, Str |-> str, Int |-> int, Bool |-> bool,
     Time |-> time, Group |-> group]

EmptyAttr == Attr(<<>>, "Any", <<>>, 0, FALSE, ZeroTime, <<>>)

StringAttr(key, s) == Attr(key, "String", s, 0, FALSE, ZeroTime, <<>>)

IntAttr(key, n) == Attr(key, "Int64", <<>>, n, FALSE, ZeroTime, <<>>)

BoolAttr(key, b) == Attr(key, "Bool", <<>>, 0, b, ZeroTime, <<>>)

TimeAttr(key, t) == Attr(key, "Time", <<>>, 0, FALSE, t, <<>>)

GroupAttr(key, as) == Attr(key, "Group", <<>>, 0, FALSE, ZeroTime, as)

AnyAttr(key) == Attr(key, "Any", <<>>, 0, FALSE, ZeroTime, <<>>)

Tag(name) == StringAttr(tagKeyName, name)

\* attr.Equal(slog.Attr{})
AttrIsEmpty(attr) == attr.Key = <<>> /\ attr.Kind = "Any"

RECURSIVE ValueString(_)
RECURSIVE AttrsString(_)
\* slog.Value.String(): a string is returned as it is, the rest is printed.
ValueString(attr) ==
    CASE attr.Kind = "String" -> attr.Str
      [] attr.Kind = "Int64" -> FormatInt(attr.Int)
      [] attr.Kind = "Bool" -> FormatBool(attr.Bool)
      [] attr.Kind = "Time" -> Format(attr.Time, <<"2006-01-02 15:04:05.999999999 -0700 MST">>)
      [] attr.Kind = "Group" -> <<"[">> \o AttrsString(attr.Group) \o <<"]">>
      [] OTHER -> <<"<nil>">>

AttrsString(as) ==
    IF as = <<>> THEN <<>>
    ELSE Head(as).Key \o <<"=">> \o ValueString(Head(as))
         \o (IF Len(as) > 1 THEN <<" ">> ELSE <<>>) \o AttrsString(Tail(as))

(***************************************************************************)
(* Options and construction.                                               *)
(***************************************************************************)
Options(level, addSource, timeFormat, timeInUTC, timeAttributeFormat, timeAttributeInUTC) ==
    [Level |-> level, AddSource |-> addSource, TimeFormat |-> timeFormat,
     TimeInUTC |-> timeInUTC, TimeAttributeFormat |-> timeAttributeFormat,
     TimeAttributeInUTC |-> timeAttributeInUTC]

defaultOptions == Options(Some(LevelInfo), FALSE, RFC3339Milli, FALSE, RFC3339Milli, FALSE)

\* NewHandler leaving a nil Level as it is.
NewHandler_noLevelDefault(out, mu, opts) ==
    LET o1 == IF opts = Nil THEN defaultOptions ELSE opts[1]
        o3 == IF o1.TimeAttributeFormat = <<>>
              THEN [o1 EXCEPT !.TimeAttributeFormat = RFC3339Milli] ELSE o1
    IN [opts |-> o3, goas |-> <<>>, mu |-> mu, out |-> out]

\* NewHandler taking one mutex per sink instead of making its own.
NewHandler_mutexOfSink(out, mu, opts) ==
    LET o1 == IF opts = Nil THEN defaultOptions ELSE opts[1]
        o2 == IF o1.Level = Nil THEN [o1 EXCEPT !.Level = Some(LevelInfo)] ELSE o1
        o3 == IF o2.TimeAttributeFormat = <<>>
              THEN [o2 EXCEPT !.TimeAttributeFormat = RFC3339Milli] ELSE o2
    IN [opts |-> o3, goas |-> <<>>, mu |-> IF out = "os.Stderr" THEN 2 ELSE 1, out |-> out]

\* The handler NewHandler(out, opts) returns; mu names the mutex it creates.
NewHandler(out, mu, opts) ==
    LET o1 == IF opts = Nil THEN defaultOptions ELSE opts[1]
        o2 == IF o1.Level = Nil THEN [o1 EXCEPT !.Level = Some(LevelInfo)] ELSE o1
        o3 == IF o2.TimeAttributeFormat = <<>>
              THEN [o2 EXCEPT !.TimeAttributeFormat = RFC3339Milli] ELSE o2
    IN [opts |-> o3, goas |-> <<>>, mu |-> mu, out |-> out]

\* The option functions: each sets one field of the options.
WithLevel(level) == [field |-> "Level", value |-> level]

WithAddSource(addSource) == [field |-> "AddSource", value |-> addSource]

WithTimeFormat(timeFormat) == [field |-> "TimeFormat", value |-> timeFormat]

WithTimeInUTC(timeInUTC) == [field |-> "TimeInUTC", value |-> timeInUTC]

WithTimeAttributeFormat(timeAttributeFormat) ==
    [field |-> "TimeAttributeFormat", value |-> timeAttributeFormat]

WithTimeAttributeInUTC(timeAttributeInUTC) ==
    [field |-> "TimeAttributeInUTC", value |-> timeAttributeInUTC]

\* opt(o) for each opt of opts, in order.
RECURSIVE ApplyOptions(_, _)
ApplyOptions(o, opts) ==
    IF opts = <<>> THEN o
    ELSE ApplyOptions([o EXCEPT ![Head(opts).field] = Head(opts).value], Tail(opts))

NewHandlerWithOptions(out, mu, opts) ==
    NewHandler(out, mu, Some(ApplyOptions(defaultOptions, opts)))

\* A frame: either bound attributes or a group name.
groupOrAttrs(attrs, group) == [attrs |-> attrs, group |-> group]

\* withGroupOrAttrs putting the new frame first.
withGroupOrAttrs_prepend(h, goa) == [h EXCEPT !.goas = <<goa>> \o h.goas]

\* withGroupOrAttrs giving the new handler a mutex of its own.
withGroupOrAttrs_ownMutex(h, goa) ==
    [h EXCEPT !.goas = Append(h.goas, goa), !.mu = h.mu + 100 + Len(h.goas)]

\* The handler value h2 that withGroupOrAttrs builds from h.
withGroupOrAttrs(h, goa) == [h EXCEPT !.goas = Append(h.goas, goa)]

\* Enabled with a strict comparison.
Enabled_strict(h, level) == level > h.opts.Level[1]

\* Handler.Enabled
Enabled(h, level) == level >= h.opts.Level[1]

(***************************************************************************)
(* Handler.appendAttr: one attribute rendered behind buf.                  *)
(***************************************************************************)
RECURSIVE appendAttr(_, _, _, _)
RECURSIVE appendAttrs(_, _, _, _)
\* appendAttr writing the separating space ahead of the switch on the kind.
appendAttr_spaceFirst(opts, buf, attr, prefix) ==
    IF AttrIsEmpty(attr) THEN buf
    ELSE CASE attr.Kind = "String" ->
                buf \o <<" ">> \o prefix \o attr.Key \o <<"=">> \o Quote(attr.Str)
           [] attr.Kind = "Time" ->
                buf \o <<" ">> \o prefix \o attr.Key \o <<"=">>
                    \o (IF opts.TimeAttributeInUTC
                        THEN Format(UTC(attr.Time), opts.TimeAttributeFormat)
                        ELSE Format(attr.Time, opts.TimeAttributeFormat))
           [] attr.Kind = "Group" ->
                IF Len(attr.Group) = 0 THEN buf \o <<" ">>
                ELSE appendAttrs(opts, buf \o <<" ">>, attr.Group,
                                 IF attr.Key # <<>> THEN prefix \o attr.Key \o <<".">> ELSE prefix)
           [] OTHER ->
                buf \o <<" ">> \o prefix \o attr.Key \o <<"=">> \o ValueString(attr)

\* The cases for durations, unsigned integers and floats differ from the
\* integer case in the conversion alone; the inputs hold none.
appendAttr(opts, buf, attr, prefix) ==
    IF AttrIsEmpty(attr) THEN buf
    ELSE CASE attr.Kind = "String" ->
                buf \o <<" ">> \o prefix \o attr.Key \o <<"=">> \o Quote(attr.Str)
           [] attr.Kind = "Time" ->
                buf \o <<" ">> \o prefix \o attr.Key \o <<"=">>
                    \o (IF opts.TimeAttributeInUTC
                        THEN Format(UTC(attr.Time), opts.TimeAttributeFormat)
                        ELSE Format(attr.Time, opts.TimeAttributeFormat))
           [] attr.Kind = "Bool" ->
                buf \o <<" ">> \o prefix \o attr.Key \o <<"=">> \o FormatBool(attr.Bool)
           [] attr.Kind = "Int64" ->
                buf \o <<" ">> \o prefix \o attr.Key \o <<"=">> \o FormatInt(attr.Int)
           [] attr.Kind = "Group" ->
                IF Len(attr.Group) = 0 THEN buf
                ELSE appendAttrs(opts, buf, attr.Group,
                                 IF attr.Key # <<>> THEN prefix \o attr.Key \o <<".">> ELSE prefix)
           [] OTHER ->
                buf \o <<" ">> \o prefix \o attr.Key \o <<"=">> \o ValueString(attr)

\* for _, a := range attrs { buf = h.appendAttr(buf, a, prefix) }
appendAttrs(opts, buf, attrs, prefix) ==
    IF attrs = <<>> THEN buf
    ELSE appendAttrs(opts, appendAttr(opts, buf, Head(attrs), prefix), Tail(attrs), prefix)

(***************************************************************************)
(* Handler.Handle, the rendering steps in the order of the code.           *)
(***************************************************************************)
Record(time, level, message, pc, attrs) ==
    [Time |-> time, Level |-> level, Message |-> message, PC |-> pc, Attrs |-> attrs]

\* appendTime without the test for the zero time.
appendTime_noZeroCheck(opts, buf, r) ==
    IF opts.TimeFormat # <<>>
    THEN buf \o (IF opts.TimeInUTC THEN Format(UTC(r.Time), opts.TimeFormat)
                 ELSE Format(r.Time, opts.TimeFormat)) \o <<"\t">>
    ELSE buf

appendTime(opts, buf, r) ==
    IF opts.TimeFormat # <<>> /\ ~IsZero(r.Time)
    THEN buf \o (IF opts.TimeInUTC THEN Format(UTC(r.Time), opts.TimeFormat)
                 ELSE Format(r.Time, opts.TimeFormat)) \o <<"\t">>
    ELSE buf

\* The inner tag loop: the first tag attribute of one frame, then break.
RECURSIVE appendTagOfAttrs(_, _)
appendTagOfAttrs(buf, attrs) ==
    IF attrs = <<>> THEN buf
    ELSE IF Head(attrs).Key = tagKeyName
         THEN buf \o <<"\t", "[">> \o ValueString(Head(attrs)) \o <<"]">>
         ELSE appendTagOfAttrs(buf, Tail(attrs))

\* The tag loop looking at the newest frame only.
appendTag_lastFrame(buf, goas) ==
    IF goas = <<>> THEN buf ELSE appendTagOfAttrs(buf, goas[Len(goas)].attrs)

\* The outer tag loop over the frames; the break leaves the inner loop only.
RECURSIVE appendTag(_, _)
appendTag(buf, goas) ==
    IF goas = <<>> THEN buf
    ELSE appendTag(appendTagOfAttrs(buf, Head(goas).attrs), Tail(goas))

\* runtime.CallersFrames([]uintptr{pc}).Next(): pc 0 gives the zero Frame.
FrameFile(pc) == IF pc = 0 THEN <<>> ELSE <<"main.go">>

FrameLine(pc) == IF pc = 0 THEN 0 ELSE 42

appendSource(opts, buf, r) ==
    IF opts.AddSource
    THEN buf \o <<"\t">> \o FrameFile(r.PC) \o <<":">> \o FormatInt(FrameLine(r.PC))
    ELSE buf

\* The elision loop with its test inverted: it drops trailing attribute frames.
RECURSIVE dropTrailingGroups_inverted(_)
dropTrailingGroups_inverted(goas) ==
    IF Len(goas) > 0 /\ goas[Len(goas)].group = <<>>
    THEN dropTrailingGroups_inverted(SubSeq(goas, 1, Len(goas) - 1))
    ELSE goas

\* for len(goas) > 0 && goas[len(goas)-1].group != "" { goas = goas[:len(goas)-1] }
RECURSIVE dropTrailingGroups(_)
dropTrailingGroups(goas) ==
    IF Len(goas) > 0 /\ goas[Len(goas)].group # <<>>
    THEN dropTrailingGroups(SubSeq(goas, 1, Len(goas) - 1))
    ELSE goas

\* The frame loop rendering the tag attributes like the others.
RECURSIVE appendGoas_noTagFilter(_, _, _)
appendGoas_noTagFilter(opts, st, goas) ==
    IF goas = <<>> THEN st
    ELSE LET goa == Head(goas)
             groupPrefix == IF goa.group # <<>> THEN st.groupPrefix \o goa.group \o <<".">>
                            ELSE st.groupPrefix
         IN appendGoas_noTagFilter(opts,
                       [buf |-> appendAttrs(opts, st.buf, goa.attrs, groupPrefix),
                        groupPrefix |-> groupPrefix],
                       Tail(goas))

\* The frame loop assigning the group prefix instead of extending it.
RECURSIVE appendGoas_prefixAssigned(_, _, _)
appendGoas_prefixAssigned(opts, st, goas) ==
    IF goas = <<>> THEN st
    ELSE LET goa == Head(goas)
             groupPrefix == IF goa.group # <<>> THEN goa.group \o <<".">>
                            ELSE st.groupPrefix
             noTag == SelectSeq(goa.attrs, LAMBDA a : a.Key # tagKeyName)
         IN appendGoas_prefixAssigned(opts,
                       [buf |-> appendAttrs(opts, st.buf, noTag, groupPrefix),
                        groupPrefix |-> groupPrefix],
                       Tail(goas))

\* The frame loop: st is [buf, groupPrefix] before the frames goas.
RECURSIVE appendGoas(_, _, _)
appendGoas(opts, st, goas) ==
    IF goas = <<>> THEN st
    ELSE LET goa == Head(goas)
             groupPrefix == IF goa.group # <<>> THEN st.groupPrefix \o goa.group \o <<".">>
                            ELSE st.groupPrefix
             noTag == SelectSeq(goa.attrs, LAMBDA a : a.Key # tagKeyName)
         IN appendGoas(opts,
                       [buf |-> appendAttrs(opts, st.buf, noTag, groupPrefix),
                        groupPrefix |-> groupPrefix],
                       Tail(goas))

\* Handle rendering the record's own attributes ahead of the frames.
HandleBuf_recordFirst(h, r, buf0) ==
    LET b1 == appendTime(h.opts, buf0, r)
        b2 == b1 \o LevelString(r.Level)
        b3 == appendTag(b2, h.goas)
        b4 == appendSource(h.opts, b3, r)
        b5 == b4 \o <<"\t">> \o r.Message
        goas == IF Len(r.Attrs) = 0 THEN dropTrailingGroups(h.goas) ELSE h.goas
        st0 == appendGoas(h.opts, [buf |-> <<>>, groupPrefix |-> <<>>], goas)
        b6 == appendAttrs(h.opts, b5, r.Attrs, st0.groupPrefix)
        st == appendGoas(h.opts, [buf |-> b6, groupPrefix |-> <<>>], goas)
    IN st.buf \o <<"\n">>

\* Handle losing the error of the write.
HandleReturn_nil(werr) == Nil

\* What Handle returns when out.Write returned werr.
HandleReturn(werr) == werr

\* The bytes Handle passes to out.Write, appended to the buffer buf0 it was given.
HandleBuf(h, r, buf0) ==
    LET b1 == appendTime(h.opts, buf0, r)
        b2 == b1 \o LevelString(r.Level)
        b3 == appendTag(b2, h.goas)
        b4 == appendSource(h.opts, b3, r)
        b5 == b4 \o <<"\t">> \o r.Message
        goas == IF Len(r.Attrs) = 0 THEN dropTrailingGroups(h.goas) ELSE h.goas
        st == appendGoas(h.opts, [buf |-> b5, groupPrefix |-> <<>>], goas)
        b6 == appendAttrs(h.opts, st.buf, r.Attrs, st.groupPrefix)
    IN b6 \o <<"\n">>

(***************************************************************************)
(* bufpool.go.  A buffer is a slice behind a pointer: id names the pointer, *)
(* data is what the slice holds up to its length, cap is its capacity.     *)
(***************************************************************************)
LongText == "<20000 bytes>"

\* With "INFO", a tab and the newline it makes a line of maxBufferSize bytes.
BoundaryText == "<16378 bytes>"

\* Bytes a symbol stands for.
Width(sym) ==
    IF sym = LongText THEN 20000 ELSE IF sym = BoundaryText THEN 16378 ELSE Len(sym)

RECURSIVE ByteLen(_)
ByteLen(buf) == IF buf = <<>> THEN 0 ELSE Width(Head(buf)) + ByteLen(Tail(buf))

\* The capacity append leaves behind when the buffer has to hold n bytes.
RECURSIVE growTo(_, _)
growTo(newcap, n) == IF newcap >= n THEN newcap ELSE growTo(newcap + ((newcap + 768) \div 4), n)

capAfterAppend(oldCap, n) ==
    IF n <= oldCap THEN oldCap
    ELSE IF n > oldCap + oldCap THEN n
    ELSE IF oldCap < 256 THEN oldCap + oldCap
    ELSE growTo(oldCap, n)

\* The buffer the pool's New makes, behind the pointer id.
NewBuf(id) == [id |-> id, data |-> <<>>, cap |-> initialBufferSize]

\* The buffer b after the line buf was appended from its start.
Appended(b, buf) == [b EXCEPT !.data = buf, !.cap = capAfterAppend(b.cap, ByteLen(buf))]

\* freeBuf pooling the buffer with what it holds.
freeBuf_noTruncate(pool, b) == IF b.cap > maxBufferSize THEN pool ELSE Append(pool, b)

\* The pool after freeBuf(b).
freeBuf(pool, b) ==
    IF b.cap > maxBufferSize THEN pool ELSE Append(pool, [b EXCEPT !.data = <<>>])

\* The ways allocBuf can go: [buf, pool] for a pooled buffer taken out, or
\* a buffer made by New when the pool holds none (the runtime may have
\* dropped what was pooled).  used holds the pointers that calls in
\* progress hold; New returns one that is not among them.
allocBuf(pool, used) ==
    { [buf |-> pool[i], pool |-> SubSeq(pool, 1, i - 1) \o SubSeq(pool, i + 1, Len(pool))] :
        i \in 1..Len(pool) }
    \cup { [buf |-> NewBuf(CHOOSE id \in 1..(Cardinality(used) + 1) : id \notin used),
            pool |-> <<>>] }

(***************************************************************************)
(* loggerf: fmt.Sprintf over a format of literal symbols and verbs.        *)
(***************************************************************************)
RECURSIVE Sprintf(_, _)
Sprintf(format, args) ==
    IF format = <<>> THEN <<>>
    ELSE IF Head(format) = "%%" THEN <<"%">> \o Sprintf(Tail(format), args)
    ELSE IF Head(format) \in {"%s", "%d", "%v"}
         THEN IF args = <<>>
              THEN <<"%!", Head(format), "(MISSING)">> \o Sprintf(Tail(format), args)
              ELSE Head(args) \o Sprintf(Tail(format), Tail(args))
    ELSE <<Head(format)>> \o Sprintf(Tail(format), args)

(***************************************************************************)
(* Inputs of the calls.                                                    *)
(***************************************************************************)
OptionInputs ==
    { Nil,
      Some(Options(Nil, FALSE, <<>>, FALSE, <<>>, FALSE)),
      Some(Options(Some(LevelWarn), TRUE, RFC3339Micro, TRUE, <<>>, TRUE)) }

LevelInputs == {LevelDebug, LevelInfo, LevelWarn}

\* Attribute lists given to WithAttrs.
AttrsInputs ==
    { <<>>,
      <<Tag(<<"a">>)>>,
      <<Tag(<<"b">>), IntAttr(<<"k">>, 1), Tag(<<"a">>)>> }

GroupInputs == { <<>>, <<"g">> }

\* Records given to Handle.
RecordInputs ==
    { Record(Time(1, "Local"), LevelInfo, <<"msg">>, 1, <<>>),
      Record(ZeroTime, LevelError, <<"msg">>, 0, <<>>),
      Record(Time(2, "Local"), 2, <<"msg">>, 1, <<StringAttr(<<"u">>, <<"v">>)>>) }

\* What out.Write returns: nil, or the error of a sink that fails.
WriteErrors == { Nil, Some("EPIPE") }

\* Contexts given to the logging methods.
CtxInputs == { "context.Background()", "ctx" }

FormatInputs ==
    { [format |-> <<"usage ", "%d", "%%">>, args |-> << <<"98">> >>],
      [format |-> <<"up">>, args |-> <<>>] }

(***************************************************************************)
(* The state: handlers is the heap of Handler values, a handler is named   *)
(* by its index; bufPool holds the pooled buffers; call is the last call:  *)
(* its arguments, what it returned and the buffers it passed to out.Write. *)
(***************************************************************************)
\* No goroutine is in a call.
NoGoroutines ==
    /\ calls = <<>>
    /\ mutexes = {}
    /\ arrays = <<>>

Init ==
    /\ \E opts \in OptionInputs : handlers = <<NewHandler("w", 1, opts)>>
    /\ bufPool = <<>>
    /\ call = [op |-> "NewHandler"]
    /\ NoGoroutines

CallEnabled(i, level) ==
    /\ call' = [op |-> "Enabled", h |-> i, level |-> level, ret |-> Enabled(handlers[i], level)]
    /\ UNCHANGED <<handlers, bufPool, conc>>

\* Handle storing the frames it keeps after the elision back into h.
Handle_elidesInPlace(i, r, werr) ==
    /\ \E a \in allocBuf(bufPool, {}) :
          LET buf == HandleBuf(handlers[i], r, a.buf.data)
          IN /\ bufPool' = freeBuf(a.pool, Appended(a.buf, buf))
             /\ call' = [op |-> "Handle", h |-> i, r |-> r, out |-> <<buf>>,
                         wret |-> <<werr>>, err |-> HandleReturn(werr)]
    /\ handlers' = [handlers EXCEPT ![i].goas =
                       IF r.Attrs = <<>> THEN dropTrailingGroups(@) ELSE @]
    /\ UNCHANGED conc

\* Handle returning at once when the handler is not enabled for the level.
Handle_levelChecked(i, r, werr) ==
    /\ \E a \in allocBuf(bufPool, {}) :
          LET buf == HandleBuf(handlers[i], r, a.buf.data)
          IN IF Enabled(handlers[i], r.Level)
             THEN /\ bufPool' = freeBuf(a.pool, Appended(a.buf, buf))
                  /\ call' = [op |-> "Handle", h |-> i, r |-> r, out |-> <<buf>>,
                              wret |-> <<werr>>, err |-> HandleReturn(werr)]
             ELSE /\ bufPool' = bufPool
                  /\ call' = [op |-> "Handle", h |-> i, r |-> r, out |-> <<>>,
                              wret |-> <<>>, err |-> Nil]
    /\ UNCHANGED <<handlers, conc>>

Handle(i, r, werr) ==
    /\ \E a \in allocBuf(bufPool, {}) :
          LET buf == HandleBuf(handlers[i], r, a.buf.data)
          IN /\ bufPool' = freeBuf(a.pool, Appended(a.buf, buf))
             /\ call' = [op |-> "Handle", h |-> i, r |-> r, out |-> <<buf>>,
                         wret |-> <<werr>>, err |-> HandleReturn(werr)]
    /\ UNCHANGED <<handlers, conc>>

WithGroup(i, name) ==
    IF name = <<>>
    THEN /\ call' = [op |-> "WithGroup", h |-> i, name |-> name, ret |-> i]
         /\ UNCHANGED <<handlers, bufPool, conc>>
    ELSE /\ Len(handlers) < MaxHandlers
         /\ Len(handlers[i].goas) < MaxFrames
         /\ handlers' = Append(handlers, withGroupOrAttrs(handlers[i], groupOrAttrs(<<>>, name)))
         /\ call' = [op |-> "WithGroup", h |-> i, name |-> name, ret |-> Len(handlers) + 1]
         /\ UNCHANGED <<bufPool, conc>>

WithAttrs(i, attrs) ==
    IF Len(attrs) = 0
    THEN /\ call' = [op |-> "WithAttrs", h |-> i, attrs |-> attrs, ret |-> i]
         /\ UNCHANGED <<handlers, bufPool, conc>>
    ELSE /\ Len(handlers) < MaxHandlers
         /\ Len(handlers[i].goas) < MaxFrames
         /\ handlers' = Append(handlers, withGroupOrAttrs(handlers[i], groupOrAttrs(attrs, <<>>)))
         /\ call' = [op |-> "WithAttrs", h |-> i, attrs |-> attrs, ret |-> Len(handlers) + 1]
         /\ UNCHANGED <<bufPool, conc>>

\* Logf passing the format and the arguments on to Logger.Log.
LogfRecord_argsForwarded(level, format, args) ==
    Record(Time(1, "Local"), level, format, 1,
           [k \in 1..Len(args) |-> StringAttr(<<"!BADKEY">>, args[k])])

\* The record Logger.Log makes of what Logf passes to it.
LogfRecord(level, format, args) ==
    Record(Time(1, "Local"), level, Sprintf(format, args), 1, <<>>)

\* Logger.Logf on a logger built on handler i: the message is formatted and
\* the record made and handled only when the handler is enabled for the
\* level.  slog.Logger drops the error Handle returns.  method names the
\* method the caller called, ectx and lctx are the contexts given to
\* Enabled and to Log.
LogfFrom(method, i, ctx, level, f) ==
    IF Enabled(handlers[i], level)
    THEN /\ \E a \in allocBuf(bufPool, {}) :
               LET r == LogfRecord(level, f.format, f.args)
                   buf == HandleBuf(handlers[i], r, a.buf.data)
               IN /\ bufPool' = freeBuf(a.pool, Appended(a.buf, buf))
                  /\ call' = [op |-> "Logf", method |-> method, h |-> i, level |-> level,
                              f |-> f, ectx |-> ctx, lctx |-> Some(ctx),
                              r |-> Some(r), out |-> <<buf>>]
         /\ UNCHANGED <<handlers, conc>>
    ELSE /\ call' = [op |-> "Logf", method |-> method, h |-> i, level |-> level, f |-> f,
                     ectx |-> ctx, lctx |-> Nil, r |-> Nil, out |-> <<>>]
         /\ UNCHANGED <<handlers, bufPool, conc>>

Logf(i, ctx, level, f) == LogfFrom("Logf", i, ctx, level, f)

Background == "context.Background()"

Infof(i, f) == LogfFrom("Infof", i, Background, LevelInfo, f)

InfofContext(i, ctx, f) == LogfFrom("InfofContext", i, ctx, LevelInfo, f)

Debugf(i, f) == LogfFrom("Debugf", i, Background, LevelDebug, f)

DebugfContext(i, ctx, f) == LogfFrom("DebugfContext", i, ctx, LevelDebug, f)

Warnf(i, f) == LogfFrom("Warnf", i, Background, LevelWarn, f)

WarnfContext(i, ctx, f) == LogfFrom("WarnfContext", i, ctx, LevelWarn, f)

Errorf(i, f) == LogfFrom("Errorf", i, Background, LevelError, f)

ErrorfContext(i, ctx, f) == LogfFrom("ErrorfContext", i, ctx, LevelError, f)

Handlers == 1..Len(handlers)

Next ==
    \/ \E i \in Handlers, level \in LevelInputs : CallEnabled(i, level)
    \/ \E i \in Handlers, r \in RecordInputs, werr \in WriteErrors : Handle(i, r, werr)
    \/ \E i \in Handlers, name \in GroupInputs : WithGroup(i, name)
    \/ \E i \in Handlers, attrs \in AttrsInputs : WithAttrs(i, attrs)
    \/ \E i \in Handlers, level \in LevelInputs, f \in FormatInputs :
          Logf(i, Background, level, f)

Spec == Init /\ [][Next]_vars

(***************************************************************************)
(* The rendering specification: one handler, reached from NewHandler by a  *)
(* chain of WithAttrs and WithGroup calls over a wider choice of frames,   *)
(* handles a wider choice of records.                                      *)
(***************************************************************************)
RenderFrames ==
    { groupOrAttrs(<<Tag(<<"a">>), IntAttr(<<"b">>, 1)>>, <<>>),
      groupOrAttrs(<<GroupAttr(<<"n">>, <<Tag(<<"c">>), BoolAttr(<<"d">>, TRUE)>>)>>, <<>>),
      groupOrAttrs(<<EmptyAttr, GroupAttr(<<"e">>, <<>>),
                     GroupAttr(<<"o">>, <<EmptyAttr, GroupAttr(<<>>, <<>>)>>)>>, <<>>),
      groupOrAttrs(<<GroupAttr(<<>>, <<StringAttr(<<"s">>, <<"x", "\"">>),
                                       TimeAttr(<<"t">>, Time(2, "Local"))>>),
                     AnyAttr(<<"z">>)>>, <<>>),
      groupOrAttrs(<<>>, <<"g">>),
      groupOrAttrs(<<>>, <<"h">>) }

RenderRecords ==
    { Record(Time(1, "Local"), LevelInfo, <<"msg">>, 1, <<>>),
      Record(ZeroTime, LevelError, <<"msg">>, 0, <<>>),
      Record(Time(2, "Local"), 2, <<"msg">>, 1,
             <<StringAttr(<<"u">>, <<"v">>), IntAttr(<<"i">>, 0 - 42)>>),
      Record(Time(1, "Local"), LevelWarn, <<"msg">>, 1,
             <<Tag(<<"y">>),
               GroupAttr(<<"q">>, <<IntAttr(<<"j">>, 2),
                                    GroupAttr(<<"p">>, <<BoolAttr(<<"w">>, FALSE)>>)>>)>>),
      Record(Time(1, "Local"), LevelInfo, <<"msg">>, 1,
             <<EmptyAttr, GroupAttr(<<"e">>, <<EmptyAttr>>)>>),
      Record(Time(1, "Local"), LevelDebug, <<"l1", "\n", "l2">>, 1, <<>>),
      Record(Time(1, "Local"), LevelInfo, <<LongText>>, 1, <<>>) }

FrameSeqs == UNION { [1..n -> RenderFrames] : n \in 0..MaxFrames }

\* The handler a chain of With calls binding the frames goas derives from h.
RECURSIVE Derive(_, _)
Derive(h, goas) ==
    IF goas = <<>> THEN h ELSE Derive(withGroupOrAttrs(h, Head(goas)), Tail(goas))

InitRender ==
    /\ \E opts \in OptionInputs, goas \in FrameSeqs :
          handlers = <<Derive(NewHandler("w", 1, opts), goas)>>
    /\ bufPool = <<>>
    /\ call = [op |-> "NewHandler"]
    /\ NoGoroutines

NextRender == \E r \in RenderRecords, werr \in WriteErrors : Handle(1, r, werr)

SpecRender == InitRender /\ [][NextRender]_vars

(***************************************************************************)
(* The loggerf specification: the methods of loggerf.Logger on a logger    *)
(* built on a handler and on one built on that handler with a tag.         *)
(***************************************************************************)
InitLogf ==
    /\ \E opts \in OptionInputs :
          handlers = <<NewHandler("w", 1, opts),
                       withGroupOrAttrs(NewHandler("w", 1, opts),
                                        groupOrAttrs(<<Tag(<<"service">>)>>, <<>>))>>
    /\ bufPool = <<>>
    /\ call = [op |-> "NewHandler"]
    /\ NoGoroutines

NextLogf ==
    \/ \E i \in Handlers, ctx \in CtxInputs, level \in LevelInputs, f \in FormatInputs :
          Logf(i, ctx, level, f)
    \/ \E i \in Handlers, f \in FormatInputs : Infof(i, f)
    \/ \E i \in Handlers, ctx \in CtxInputs, f \in FormatInputs : InfofContext(i, ctx, f)
    \/ \E i \in Handlers, f \in FormatInputs : Debugf(i, f)
    \/ \E i \in Handlers, ctx \in CtxInputs, f \in FormatInputs : DebugfContext(i, ctx, f)
    \/ \E i \in Handlers, f \in FormatInputs : Warnf(i, f)
    \/ \E i \in Handlers, ctx \in CtxInputs, f \in FormatInputs : WarnfContext(i, ctx, f)
    \/ \E i \in Handlers, f \in FormatInputs : Errorf(i, f)
    \/ \E i \in Handlers, ctx \in CtxInputs, f \in FormatInputs : ErrorfContext(i, ctx, f)

SpecLogf == InitLogf /\ [][NextLogf]_vars

(***************************************************************************)
(* The concurrent specification: goroutines call Handle on the handlers of *)
(* two lineages that write to one sink, and run it statement by statement. *)
(* calls[g] is the call goroutine g is in: pc counts the statements it has *)
(* run, bufp is the buffer it took (a sequence of at most one), out the    *)
(* buffers it passed to out.Write, wret what Write returned, locked says   *)
(* that it holds the mutex, frees is the number of times it gave its       *)
(* buffer back.                                                            *)
(***************************************************************************)
Goroutines == { "g1", "g2" }

\* Handle with freeBuf called right after allocBuf instead of deferred.
HandleSteps_freeNotDeferred ==
    <<"allocBuf", "freeBuf", "render", "Lock", "Write", "WriteReturn", "Unlock">>

\* The statements of Handle in the order they run: the deferred ones at the
\* return, the last deferred first.  "Write" is the call of out.Write and
\* "WriteReturn" its return.
HandleSteps == <<"allocBuf", "render", "Lock", "Write", "WriteReturn", "Unlock", "freeBuf">>

Idle == [pc |-> 0]

ConcRecords ==
    { Record(ZeroTime, LevelInfo, <<m>>, 0, <<>>) : m \in {"msg", BoundaryText, LongText} }

InitConc ==
    /\ LET opts == Some(Options(Nil, FALSE, <<>>, FALSE, <<>>, FALSE))
       IN handlers = <<NewHandler("w", 1, opts),
                       withGroupOrAttrs(NewHandler("w", 1, opts),
                                        groupOrAttrs(<<Tag(<<"a">>)>>, <<>>)),
                       NewHandler("w", 2, opts)>>
    /\ bufPool = <<>>
    /\ call = [op |-> "NewHandler"]
    /\ calls = [g \in Goroutines |-> Idle]
    /\ mutexes = {}
    /\ arrays = <<>>

\* The statement goroutine g runs next.
Stmt(g) == IF calls[g].pc = 0 THEN "call" ELSE HandleSteps[calls[g].pc]

\* The pointers of the buffers that calls in progress hold.
HeldIds == { calls[g].bufp[1].id : g \in { x \in Goroutines : calls[x].pc > 0 /\ calls[x].bufp # <<>> } }

\* Goroutine g has run a statement that left its call as c: it goes on to
\* the next statement, or returns after the last one.
Ran(g, c) ==
    /\ calls' = [calls EXCEPT ![g] = IF c.pc = Len(HandleSteps) THEN Idle
                                     ELSE [c EXCEPT !.pc = @ + 1]]
    /\ UNCHANGED call

HandleCall(g, i, r) ==
    /\ calls[g].pc = 0
    /\ calls' = [calls EXCEPT ![g] = [pc |-> 1, h |-> i, r |-> r, bufp |-> <<>>, out |-> <<>>,
                                      wret |-> <<>>, locked |-> FALSE, frees |-> 0]]
    /\ UNCHANGED <<handlers, bufPool, call, mutexes, arrays>>

HandleAllocBuf(g) ==
    /\ Stmt(g) = "allocBuf"
    /\ \E a \in allocBuf(bufPool, HeldIds) :
          /\ bufPool' = a.pool
          /\ Ran(g, [calls[g] EXCEPT !.bufp = <<a.buf>>])
    /\ UNCHANGED <<handlers, mutexes, arrays>>

HandleRender(g) ==
    /\ Stmt(g) = "render"
    /\ LET c == calls[g]
           buf == HandleBuf(handlers[c.h], c.r, c.bufp[1].data)
       IN Ran(g, [c EXCEPT !.bufp = <<Appended(c.bufp[1], buf)>>])
    /\ UNCHANGED <<handlers, bufPool, mutexes, arrays>>

HandleLock(g) ==
    /\ Stmt(g) = "Lock"
    /\ handlers[calls[g].h].mu \notin mutexes
    /\ mutexes' = mutexes \cup {handlers[calls[g].h].mu}
    /\ Ran(g, [calls[g] EXCEPT !.locked = TRUE])
    /\ UNCHANGED <<handlers, bufPool, arrays>>

HandleWrite(g) ==
    /\ Stmt(g) = "Write"
    /\ Ran(g, [calls[g] EXCEPT !.out = Append(@, calls[g].bufp[1].data)])
    /\ UNCHANGED <<handlers, bufPool, mutexes, arrays>>

HandleWriteReturn(g, werr) ==
    /\ Stmt(g) = "WriteReturn"
    /\ Ran(g, [calls[g] EXCEPT !.wret = Append(@, werr)])
    /\ UNCHANGED <<handlers, bufPool, mutexes, arrays>>

HandleUnlock(g) ==
    /\ Stmt(g) = "Unlock"
    /\ mutexes' = mutexes \ {handlers[calls[g].h].mu}
    /\ Ran(g, [calls[g] EXCEPT !.locked = FALSE])
    /\ UNCHANGED <<handlers, bufPool, arrays>>

HandleFreeBuf(g) ==
    /\ Stmt(g) = "freeBuf"
    /\ bufPool' = freeBuf(bufPool, calls[g].bufp[1])
    /\ Ran(g, [calls[g] EXCEPT !.frees = @ + 1])
    /\ UNCHANGED <<handlers, mutexes, arrays>>

NextConc ==
    \/ \E g \in Goroutines, i \in Handlers, r \in ConcRecords : HandleCall(g, i, r)
    \/ \E g \in Goroutines : HandleAllocBuf(g)
    \/ \E g \in Goroutines : HandleRender(g)
    \/ \E g \in Goroutines : HandleLock(g)
    \/ \E g \in Goroutines : HandleWrite(g)
    \/ \E g \in Goroutines, werr \in WriteErrors : HandleWriteReturn(g, werr)
    \/ \E g \in Goroutines : HandleUnlock(g)
    \/ \E g \in Goroutines : HandleFreeBuf(g)

SpecConc == InitConc /\ [][NextConc]_vars

(***************************************************************************)
(* extras.NewSplitLevelLogHandler.  In this specification handlers is the  *)
(* map the LevelHandler holds: a handler is named by its level.  The       *)
(* LevelHandler is the one the comments of NewSplitLevelLogHandler         *)
(* describe: it calls Handle of the handler mapped to the record's level   *)
(* and does not look at the level that handler was built with.             *)
(***************************************************************************)
\* The options used when the caller gives none.
splitDefaultOptions == Options(Nil, FALSE, RFC3339Milli, FALSE, <<>>, FALSE)

\* NewSplitLevelLogHandler removing the given level as well.
NewSplitLevelLogHandler_pruneLevelToo(level, opts) ==
    LET o == IF opts = Nil THEN Some(splitDefaultOptions) ELSE opts
        allLevelHandlers ==
            (LevelInfo :> NewHandler("os.Stdout", 1, o)) @@
            (LevelWarn :> NewHandler("os.Stdout", 2, o)) @@
            (LevelDebug :> NewHandler("os.Stdout", 3, o)) @@
            (LevelError :> NewHandler("os.Stderr", 4, o))
    IN [l \in { x \in DOMAIN allLevelHandlers : ~(x <= level) } |-> allLevelHandlers[l]]

\* The map NewSplitLevelLogHandler gives to NewLevelHandler.
NewSplitLevelLogHandler(level, opts) ==
    LET o == IF opts = Nil THEN Some(splitDefaultOptions) ELSE opts
        allLevelHandlers ==
            (LevelInfo :> NewHandler("os.Stdout", 1, o)) @@
            (LevelWarn :> NewHandler("os.Stdout", 2, o)) @@
            (LevelDebug :> NewHandler("os.Stdout", 3, o)) @@
            (LevelError :> NewHandler("os.Stderr", 4, o))
    IN [l \in { x \in DOMAIN allLevelHandlers : ~(x < level) } |-> allLevelHandlers[l]]

SplitLevelInputs == { LevelDebug, LevelInfo, 2, LevelWarn, LevelError, 12 }

SplitRecords ==
    { Record(Time(1, "Local"), l, <<"msg">>, 1, <<>>) :
        l \in {LevelDebug, LevelInfo, 2, LevelWarn, LevelError} }

InitSplit ==
    /\ \E level \in SplitLevelInputs, opts \in OptionInputs :
          handlers = NewSplitLevelLogHandler(level, opts)
    /\ bufPool = <<>>
    /\ call = [op |-> "NewSplitLevelLogHandler"]
    /\ NoGoroutines

\* LevelHandler.Enabled
LevelEnabled(level) ==
    /\ call' = [op |-> "LevelHandler.Enabled", level |-> level,
                ret |-> level \in DOMAIN handlers]
    /\ UNCHANGED <<handlers, bufPool, conc>>

\* LevelHandler.Handle
LevelHandle(r, werr) ==
    IF r.Level \in DOMAIN handlers
    THEN Handle(r.Level, r, werr)
    ELSE /\ call' = [op |-> "LevelHandler.Handle", r |-> r, out |-> <<>>, err |-> Nil]
         /\ UNCHANGED <<handlers, bufPool, conc>>

NextSplit ==
    \/ \E level \in SplitLevelInputs : LevelEnabled(level)
    \/ \E r \in SplitRecords, werr \in WriteErrors : LevelHandle(r, werr)

SpecSplit == InitSplit /\ [][NextSplit]_vars

(***************************************************************************)
(* The concurrent specification of the level-routing handler: goroutines   *)
(* call LevelHandler.Handle, which calls Handle of the handler mapped to   *)
(* the level of the record; Handle runs statement by statement.            *)
(***************************************************************************)
InitSplitConc ==
    /\ \E level \in SplitLevelInputs : handlers = NewSplitLevelLogHandler(level, Nil)
    /\ bufPool = <<>>
    /\ call = [op |-> "NewSplitLevelLogHandler"]
    /\ calls = [g \in Goroutines |-> Idle]
    /\ mutexes = {}
    /\ arrays = <<>>

\* Goroutine g calls LevelHandler.Handle with the record r.
LevelHandleCall(g, r) ==
    IF r.Level \in DOMAIN handlers
    THEN HandleCall(g, r.Level, r)
    ELSE /\ calls[g].pc = 0
         /\ call' = [op |-> "LevelHandler.Handle", r |-> r, out |-> <<>>, err |-> Nil]
         /\ UNCHANGED <<handlers, bufPool, conc>>

NextSplitConc ==
    \/ \E g \in Goroutines, r \in SplitRecords : LevelHandleCall(g, r)
    \/ \E g \in Goroutines : HandleAllocBuf(g)
    \/ \E g \in Goroutines : HandleRender(g)
    \/ \E g \in Goroutines : HandleLock(g)
    \/ \E g \in Goroutines : HandleWrite(g)
    \/ \E g \in Goroutines, werr \in WriteErrors : HandleWriteReturn(g, werr)
    \/ \E g \in Goroutines : HandleUnlock(g)
    \/ \E g \in Goroutines : HandleFreeBuf(g)

SpecSplitConc == InitSplitConc /\ [][NextSplitConc]_vars

(***************************************************************************)
(* The construction specification: a handler built by either constructor   *)
(* from a wider choice of options, and the handlers derived from it.       *)
(***************************************************************************)
NewOptionInputs ==
    { Nil } \cup
    { Some(Options(l, s, tf, FALSE, taf, u)) :
        l \in {Nil, Some(LevelDebug)}, s \in BOOLEAN, tf \in {<<>>, RFC3339Micro},
        taf \in {<<>>, RFC3339Micro}, u \in BOOLEAN }

OptionFuncInputs ==
    { WithLevel(Nil), WithLevel(Some(LevelError)), WithAddSource(TRUE), WithTimeFormat(<<>>),
      WithTimeInUTC(TRUE), WithTimeAttributeFormat(<<>>), WithTimeAttributeFormat(RFC3339Micro),
      WithTimeAttributeInUTC(TRUE) }

OptionFuncSeqs == UNION { [1..n -> OptionFuncInputs] : n \in 0..2 }

InitNew ==
    /\ \/ \E opts \in NewOptionInputs : handlers = <<NewHandler("w", 1, opts)>>
       \/ \E opts \in OptionFuncSeqs : handlers = <<NewHandlerWithOptions("w", 1, opts)>>
    /\ bufPool = <<>>
    /\ call = [op |-> "NewHandler"]
    /\ NoGoroutines

NextNew ==
    \/ \E i \in Handlers, level \in LevelInputs : CallEnabled(i, level)
    \/ \E i \in Handlers, name \in GroupInputs : WithGroup(i, name)
    \/ \E i \in Handlers, attrs \in AttrsInputs : WithAttrs(i, attrs)

SpecNew == InitNew /\ [][NextNew]_vars

(***************************************************************************)
(* The heap specification: slices are headers over backing arrays, as in   *)
(* the program.  arrays[a] is the backing array a: array 1 belongs to the  *)
(* caller, who passes slices of it to WithAttrs and stores to its          *)
(* elements; the others hold the frames of handlers, a frame's attrs being *)
(* a slice header.  The shared handler is one derived from NewHandler by   *)
(* WithGroup("g").  Goroutines run withGroupOrAttrs statement by           *)
(* statement.  The field bound of a handler is not a field of Handler: it  *)
(* records, frame by frame, the attributes the slice given to WithAttrs    *)
(* held when WithAttrs was called.                                         *)
(***************************************************************************)
\* A slice header: the backing array and the length; array 0 is no array.
slice(arr, len) == [arr |-> arr, len |-> len]

NilSlice == slice(0, 0)

\* The elements of the slice s in the heap arrs.
Elems(arrs, s) == [k \in 1..s.len |-> arrs[s.arr][k]]

\* The zero value of groupOrAttrs, as make leaves it in every slot.
ZeroGoa == groupOrAttrs(NilSlice, <<>>)

\* append(h.goas, goa) on a slice that has room: no new array.
makeGoas_inPlace(arrs, goas) ==
    IF goas.arr = 0
    THEN [arrays |-> Append(arrs, <<ZeroGoa>>), slice |-> slice(Len(arrs) + 1, 1)]
    ELSE [arrays |-> [arrs EXCEPT ![goas.arr] =
                         IF Len(@) > goas.len THEN @ ELSE Append(@, ZeroGoa)],
          slice |-> slice(goas.arr, goas.len + 1)]

\* make([]groupOrAttrs, len(h.goas)+1): a new array of zero values and the
\* slice over it.
makeGoas(arrs, goas) ==
    [arrays |-> Append(arrs, [k \in 1..(goas.len + 1) |-> ZeroGoa]),
     slice |-> slice(Len(arrs) + 1, goas.len + 1)]

\* The arrays after copy(dst, src).
copyGoas(arrs, dst, src) ==
    LET n == IF dst.len < src.len THEN dst.len ELSE src.len
    IN IF n = 0 THEN arrs
       ELSE [arrs EXCEPT ![dst.arr] =
                [k \in 1..Len(@) |-> IF k <= n THEN arrs[src.arr][k] ELSE @[k]]]

\* The handler h as Handle reads it in the heap arrs: each frame with the
\* attributes its slice holds now.
Deref(arrs, h) ==
    [opts |-> h.opts, mu |-> h.mu, out |-> h.out,
     goas |-> [k \in 1..h.goas.len |->
                  groupOrAttrs(Elems(arrs, arrs[h.goas.arr][k].attrs),
                               arrs[h.goas.arr][k].group)]]

\* The statements of withGroupOrAttrs.
WithSteps == <<"h2 := *h", "make", "copy", "h2.goas[len-1] = goa", "return &h2">>

WithStmt(g) == IF calls[g].pc = 0 THEN "call" ELSE WithSteps[calls[g].pc]

\* The slices of its array the caller gives to WithAttrs.
SliceInputs == { NilSlice, slice(1, 1) }

\* The attributes the caller stores to elements of its array.
StoreInputs == { IntAttr(<<"k">>, 2) }

HeapRecords == { Record(ZeroTime, LevelInfo, <<"msg">>, 0, <<StringAttr(<<"u">>, <<"v">>)>>) }

InitHeap ==
    /\ LET root == NewHandler("w", 1, Nil)
       IN handlers = <<[opts |-> root.opts, goas |-> slice(2, 1), mu |-> root.mu,
                        out |-> root.out, bound |-> << <<>> >>]>>
    /\ arrays = << <<IntAttr(<<"k">>, 1)>>, <<groupOrAttrs(NilSlice, <<"g">>)>> >>
    /\ bufPool = <<>>
    /\ call = [op |-> "WithGroup", h |-> 0, ret |-> 1]
    /\ calls = [g \in Goroutines |-> Idle]
    /\ mutexes = {}

\* The calls of WithAttrs and WithGroup that are in progress.
Deriving == { g \in Goroutines : calls[g].pc > 0 }

\* Goroutine g goes from the statement it is at to the next one.
Stepped(g, c) == calls' = [calls EXCEPT ![g] = [c EXCEPT !.pc = @ + 1]]

\* Goroutine g calls WithAttrs(attrs) on handler i and enters
\* withGroupOrAttrs, or returns h at once when attrs is empty.
WithAttrsCall(g, i, attrs) ==
    /\ calls[g].pc = 0
    /\ IF attrs.len = 0
       THEN /\ call' = [op |-> "WithAttrs", h |-> i, ret |-> i]
            /\ UNCHANGED <<handlers, bufPool, conc>>
       ELSE /\ Len(handlers) + Cardinality(Deriving) < MaxHandlers
            /\ handlers[i].goas.len < MaxFrames
            /\ calls' = [calls EXCEPT ![g] =
                            [pc |-> 1, op |-> "WithAttrs", h |-> i,
                             goa |-> groupOrAttrs(attrs, <<>>), h2 |-> <<>>,
                             bound |-> Elems(arrays, attrs)]]
            /\ UNCHANGED <<handlers, bufPool, call, mutexes, arrays>>

\* Goroutine g calls WithGroup(name) on handler i.
WithGroupCall(g, i, name) ==
    /\ calls[g].pc = 0
    /\ IF name = <<>>
       THEN /\ call' = [op |-> "WithGroup", h |-> i, ret |-> i]
            /\ UNCHANGED <<handlers, bufPool, conc>>
       ELSE /\ Len(handlers) + Cardinality(Deriving) < MaxHandlers
            /\ handlers[i].goas.len < MaxFrames
            /\ calls' = [calls EXCEPT ![g] =
                            [pc |-> 1, op |-> "WithGroup", h |-> i,
                             goa |-> groupOrAttrs(NilSlice, name), h2 |-> <<>>,
                             bound |-> <<>>]]
            /\ UNCHANGED <<handlers, bufPool, call, mutexes, arrays>>

\* h2 := *h
HeapCopyHandler(g) ==
    /\ calls[g].pc > 0
    /\ WithStmt(g) = "h2 := *h"
    /\ Stepped(g, [calls[g] EXCEPT !.h2 =
                      <<[handlers[calls[g].h] EXCEPT !.bound = Append(@, calls[g].bound)]>>])
    /\ UNCHANGED <<handlers, bufPool, call, mutexes, arrays>>

\* h2.goas = make([]groupOrAttrs, len(h.goas)+1)
HeapMake(g) ==
    /\ calls[g].pc > 0
    /\ WithStmt(g) = "make"
    /\ LET m == makeGoas(arrays, handlers[calls[g].h].goas)
       IN /\ arrays' = m.arrays
          /\ Stepped(g, [calls[g] EXCEPT !.h2[1].goas = m.slice])
    /\ UNCHANGED <<handlers, bufPool, call, mutexes>>

\* copy(h2.goas, h.goas)
HeapCopy(g) ==
    /\ calls[g].pc > 0
    /\ WithStmt(g) = "copy"
    /\ arrays' = copyGoas(arrays, calls[g].h2[1].goas, handlers[calls[g].h].goas)
    /\ Stepped(g, calls[g])
    /\ UNCHANGED <<handlers, bufPool, call, mutexes>>

\* h2.goas[len(h2.goas)-1] = goa
HeapStore(g) ==
    /\ calls[g].pc > 0
    /\ WithStmt(g) = "h2.goas[len-1] = goa"
    /\ LET s == calls[g].h2[1].goas
       IN arrays' = [arrays EXCEPT ![s.arr][s.len] = calls[g].goa]
    /\ Stepped(g, calls[g])
    /\ UNCHANGED <<handlers, bufPool, call, mutexes>>

\* return &h2
HeapReturn(g) ==
    /\ calls[g].pc > 0
    /\ WithStmt(g) = "return &h2"
    /\ handlers' = Append(handlers, calls[g].h2[1])
    /\ call' = [op |-> calls[g].op, h |-> calls[g].h, ret |-> Len(handlers) + 1]
    /\ calls' = [calls EXCEPT ![g] = Idle]
    /\ UNCHANGED <<bufPool, mutexes, arrays>>

\* Handle on handler i, reading the frames and their attributes in the heap.
HeapHandle(i, r) ==
    /\ \E a \in allocBuf(bufPool, {}) :
          LET buf == HandleBuf(Deref(arrays, handlers[i]), r, a.buf.data)
          IN /\ bufPool' = freeBuf(a.pool, Appended(a.buf, buf))
             /\ call' = [op |-> "Handle", h |-> i, r |-> r, out |-> <<buf>>,
                         wret |-> <<Nil>>, err |-> HandleReturn(Nil)]
    /\ UNCHANGED <<handlers, conc>>

\* The caller stores the attribute a to element k of its array: attrs[k] = a.
CallerStore(k, a) ==
    /\ arrays[1][k] # a
    /\ arrays' = [arrays EXCEPT ![1][k] = a]
    /\ UNCHANGED <<handlers, bufPool, call, calls, mutexes>>

NextHeap ==
    \/ \E g \in Goroutines, i \in Handlers, attrs \in SliceInputs : WithAttrsCall(g, i, attrs)
    \/ \E g \in Goroutines, i \in Handlers, name \in GroupInputs : WithGroupCall(g, i, name)
    \/ \E g \in Goroutines : HeapCopyHandler(g)
    \/ \E g \in Goroutines : HeapMake(g)
    \/ \E g \in Goroutines : HeapCopy(g)
    \/ \E g \in Goroutines : HeapStore(g)
    \/ \E g \in Goroutines : HeapReturn(g)
    \/ \E i \in Handlers, r \in HeapRecords : HeapHandle(i, r)
    \/ \E k \in DOMAIN arrays[1], a \in StoreInputs : CallerStore(k, a)

SpecHeap == InitHeap /\ [][NextHeap]_vars

(***************************************************************************)
(* Claims.                                                                 *)
(***************************************************************************)
\* The minimum level a handler built from the options opts is configured with.
ConfiguredMinimum(opts) ==
    IF opts = Nil THEN LevelInfo
    ELSE IF opts[1].Level = Nil THEN LevelInfo ELSE opts[1].Level[1]

\* The options the lineage of this behaviour may have been constructed from.
ConstructedFrom == { opts \in OptionInputs : handlers[1] = NewHandler("w", 1, opts) }

\* C1: Enabled(level) returns true exactly when level >= the configured
\* minimum (Info when Options.Level was nil) and changes no state; a Logf
\* call below the minimum makes no Write and changes no state, so Info-level
\* calls on a handler whose minimum is above Info never write.
C1_EnabledFilters ==
    [][\A opts \in ConstructedFrom :
         /\ call'.op = "Enabled" =>
               /\ call'.ret = (call'.level >= ConfiguredMinimum(opts))
               /\ UNCHANGED <<handlers, bufPool>>
         /\ (call'.op = "Logf" /\ call'.level < ConfiguredMinimum(opts)) =>
               /\ call'.out = <<>>
               /\ UNCHANGED <<handlers, bufPool>>
         /\ (call'.op = "Logf" /\ call'.level >= ConfiguredMinimum(opts)) =>
               Len(call'.out) = 1]_vars

C1_Witness ==
    /\ call.op = "Logf"
    /\ call.level = LevelInfo
    /\ handlers[call.h].opts.Level = Some(LevelWarn)
    /\ Len(handlers) > 1
    /\ call.out = <<>>

\* The last call handled a record and passed a line to out.Write.
Wrote == call.op \in {"Handle", "Logf"} /\ Len(call.out) = 1

WrittenLine == call.out[1]

HandledRecord == IF call.op = "Handle" THEN call.r ELSE call.r[1]

\* s occurs in line at position i.
OccursAt(line, s, i) == i + Len(s) - 1 <= Len(line) /\ SubSeq(line, i, i + Len(s) - 1) = s

Occurrences(line, s) == { i \in 1..Len(line) : OccursAt(line, s, i) }

TagField(t) == <<"\t", "[">> \o t \o <<"]">>

\* The positions <<frame, index>> of the tag attributes bound in goas.
BoundTags(goas) ==
    UNION { { <<j, k>> : k \in { x \in DOMAIN goas[j].attrs : goas[j].attrs[x].Key = tagKeyName } } :
            j \in DOMAIN goas }

FirstBoundTag(goas) ==
    CHOOSE p \in BoundTags(goas) :
        \A q \in BoundTags(goas) : p[1] < q[1] \/ (p[1] = q[1] /\ p[2] <= q[2])

\* C3: whatever tags were bound, in one frame or in several, the line holds at
\* most one bracketed tag field, and it holds the first tag in frame order.
C3_AtMostOneTagField ==
    Wrote =>
       LET goas == handlers[call.h].goas
       IN /\ Cardinality(Occurrences(WrittenLine, <<"\t", "[">>)) <= 1
          /\ BoundTags(goas) # {} =>
                LET p == FirstBoundTag(goas)
                IN Occurrences(WrittenLine, TagField(goas[p[1]].attrs[p[2]].Str)) # {}

TagNames == { <<"a">>, <<"b">> }

\* c is what p.WithAttrs([Tag(t)]) returns.
IsTagChild(p, c, t) ==
    handlers[c].goas = handlers[p].goas \o <<groupOrAttrs(<<Tag(t)>>, <<>>)>>

\* d is c or derived from c.
Descends(d, c) ==
    /\ Len(handlers[d].goas) >= Len(handlers[c].goas)
    /\ SubSeq(handlers[d].goas, 1, Len(handlers[c].goas)) = handlers[c].goas

\* The line carries \t[t] right behind the level field.
TagRightAfterLevel(line, h, r, t) ==
    OccursAt(line, TagField(t), Len(appendTime(h.opts, <<>>, r) \o LevelString(r.Level)) + 1)

C4_Statement(parents) ==
    Wrote =>
       \A p \in parents, c \in Handlers, t \in TagNames :
          IsTagChild(p, c, t) =>
             /\ Descends(call.h, c) =>
                   TagRightAfterLevel(WrittenLine, handlers[call.h], HandledRecord, t)
             /\ call.h = p => Occurrences(WrittenLine, TagField(t)) = {}

\* C4 as stated: for every parent, tagged or not.
C4_Original == C4_Statement(Handlers)

\* C4, amended: when no tag is bound in parent's frames, every record handled
\* by child = parent.WithAttrs([Tag(t)]) or by a handler derived from child is
\* written with \t[t] right behind the level field, and every record handled
\* by parent is written without that field.
C4_TagOnChildOnly == C4_Statement({ p \in Handlers : BoundTags(handlers[p].goas) = {} })

C4_Witness ==
    /\ Wrote
    /\ \E p \in Handlers, c \in Handlers :
          /\ BoundTags(handlers[p].goas) = {}
          /\ IsTagChild(p, c, <<"a">>)
          /\ Descends(call.h, c)
          /\ call.h # c
          /\ TagRightAfterLevel(WrittenLine, handlers[call.h], HandledRecord, <<"a">>)

\* The number of frames of goas in front of its trailing group frames.
KeptFrames(goas) ==
    CHOOSE k \in 0..Len(goas) :
        /\ \A j \in (k + 1)..Len(goas) : goas[j].group # <<>>
        /\ k > 0 => goas[k].group = <<>>

\* C8: a record without attributes handled by a handler whose frames end in
\* group frames is written as by the handler without those frames, with no
\* dangling prefix, and the handler keeps its frames.
C8_TrailingGroupsElided ==
    [][(call'.op = "Handle" /\ Len(call'.r.Attrs) = 0
          /\ KeptFrames(handlers[call'.h].goas) < Len(handlers[call'.h].goas)) =>
         LET h == handlers[call'.h]
             line == call'.out[1]
             short == [h EXCEPT !.goas = SubSeq(h.goas, 1, KeptFrames(h.goas))]
         IN /\ handlers' = handlers
            /\ line = HandleBuf(short, call'.r, <<>>)
            /\ line[Len(line) - 1] # "."]_vars

C8_Witness ==
    /\ call.op = "Handle"
    /\ Len(call.r.Attrs) = 0
    /\ KeptFrames(handlers[call.h].goas) = 1
    /\ Len(handlers[call.h].goas) = 2
    /\ \E i \in Handlers : /\ Len(handlers[i].goas) = 1
                           /\ Descends(call.h, i)
                           /\ WrittenLine = HandleBuf(handlers[i], call.r, <<>>)

\* What a With call has to return: the receiver itself, or a new handler whose
\* frames are the receiver's with goa behind them.
ReturnsSelfOrAppends(noop, goa) ==
    IF noop
    THEN call'.ret = call'.h /\ handlers' = handlers
    ELSE /\ call'.ret \notin DOMAIN handlers
         /\ DOMAIN handlers' = DOMAIN handlers \cup {call'.ret}
         /\ \A j \in DOMAIN handlers : handlers'[j] = handlers[j]
         /\ LET new == handlers'[call'.ret].goas
                old == handlers[call'.h].goas
            IN /\ Len(new) = Len(old) + 1
               /\ \A j \in 1..Len(old) : new[j] = old[j]
               /\ new[Len(new)] = goa

\* C10: WithAttrs with no attributes and WithGroup with an empty name return
\* the receiver and make no handler; otherwise each returns a new handler
\* whose frames are the receiver's with exactly one frame appended.
C10_WithReturnsSelfOrAppends ==
    [][/\ call'.op = "WithAttrs" =>
             ReturnsSelfOrAppends(Len(call'.attrs) = 0, groupOrAttrs(call'.attrs, <<>>))
       /\ call'.op = "WithGroup" =>
             ReturnsSelfOrAppends(call'.name = <<>>, groupOrAttrs(<<>>, call'.name))]_vars

C10_Witness ==
    /\ call.op = "WithGroup"
    /\ call.name = <<"g">>
    /\ call.ret = 3
    /\ Len(handlers) = 3
    /\ Len(handlers[3].goas) = 2
    /\ handlers[3].goas[1].attrs # <<>>

IsTag(a) == a.Key = tagKeyName

\* The field of the first tag of each frame, in frame order.
RECURSIVE TagFieldPerFrame(_)
TagFieldPerFrame(goas) ==
    IF goas = <<>> THEN <<>>
    ELSE LET tags == SelectSeq(Head(goas).attrs, IsTag)
         IN (IF tags = <<>> THEN <<>> ELSE TagField(tags[1].Str)) \o TagFieldPerFrame(Tail(goas))

\* The field of the first tag of all frames.
OneTagField(goas) ==
    IF BoundTags(goas) = {} THEN <<>>
    ELSE LET p == FirstBoundTag(goas) IN TagField(goas[p[1]].attrs[p[2]].Str)

TimeField(h, r) ==
    IF h.opts.TimeFormat # <<>> /\ r.Time.inst # 0
    THEN Format([r.Time EXCEPT !.loc = IF h.opts.TimeInUTC THEN "UTC" ELSE @],
                h.opts.TimeFormat) \o <<"\t">>
    ELSE <<>>

SourceField(h, r) ==
    IF h.opts.AddSource
    THEN <<"\t">> \o FrameFile(r.PC) \o <<":">> \o FormatInt(FrameLine(r.PC))
    ELSE <<>>

\* line is: front, then nothing or attributes led by a space, then the newline.
FieldsInOrder(line, front) ==
    /\ Len(line) > Len(front)
    /\ SubSeq(line, 1, Len(front)) = front
    /\ line[Len(line)] = "\n"
    /\ Len(line) > Len(front) + 1 => line[Len(front) + 1] = " "

BareLine(h, r) == TimeField(h, r) \o LevelString(r.Level) \o <<"\t">> \o r.Message \o <<"\n">>

\* C2 as stated: timestamp and tab (exactly when TimeFormat is set and the time
\* is not zero), level, at most one tag field, optional source, tab and
\* message, attributes, newline; without attributes and frames the line is
\* the timestamp, the level and the message alone.
C2_Original ==
    Wrote =>
       LET h == handlers[call.h]
           r == HandledRecord
       IN /\ FieldsInOrder(WrittenLine,
                           TimeField(h, r) \o LevelString(r.Level) \o OneTagField(h.goas)
                              \o SourceField(h, r) \o <<"\t">> \o r.Message)
          /\ (h.goas = <<>> /\ r.Attrs = <<>>) => WrittenLine = BareLine(h, r)

\* C2, amended: the fields come in the order timestamp and tab (exactly when
\* TimeFormat is set and the time is not zero), level, the tag field of each
\* frame that holds a tag, source when AddSource is set, tab and message,
\* attributes, newline; without attributes, frames and AddSource the line
\* is the timestamp, the level and the message alone.
C2_FieldOrder ==
    Wrote =>
       LET h == handlers[call.h]
           r == HandledRecord
       IN /\ FieldsInOrder(WrittenLine,
                           TimeField(h, r) \o LevelString(r.Level) \o TagFieldPerFrame(h.goas)
                              \o SourceField(h, r) \o <<"\t">> \o r.Message)
          /\ (h.goas = <<>> /\ r.Attrs = <<>> /\ ~h.opts.AddSource) =>
                WrittenLine = BareLine(h, r)

C2_Witness ==
    /\ Wrote
    /\ handlers[call.h].opts.TimeFormat # <<>>
    /\ ~handlers[call.h].opts.AddSource
    /\ handlers[call.h].goas = <<>>
    /\ HandledRecord.Time = ZeroTime
    /\ WrittenLine = <<"ERROR", "\t", "msg", "\n">>

\* The attributes of attrs that are rendered, each with its key and its
\* dotted key under prefix, in order.
RECURSIVE Leaves(_, _)
Leaves(attrs, prefix) ==
    IF attrs = <<>> THEN <<>>
    ELSE LET a == Head(attrs)
             here == IF a.Key = <<>> /\ a.Kind = "Any" THEN <<>>
                     ELSE IF a.Kind = "Group"
                          THEN Leaves(a.Group, IF a.Key = <<>> THEN prefix
                                               ELSE prefix \o a.Key \o <<".">>)
                     ELSE <<[key |-> a.Key, full |-> prefix \o a.Key]>>
         IN here \o Leaves(Tail(attrs), prefix)

\* The names of the group frames of goas, each followed by a dot.
RECURSIVE GroupPath(_)
GroupPath(goas) ==
    IF goas = <<>> THEN <<>>
    ELSE (IF Head(goas).group # <<>> THEN Head(goas).group \o <<".">> ELSE <<>>)
         \o GroupPath(Tail(goas))

RECURSIVE FrameLeaves(_, _)
FrameLeaves(goas, j) ==
    IF j > Len(goas) THEN <<>>
    ELSE Leaves(SelectSeq(goas[j].attrs, LAMBDA a : ~IsTag(a)), GroupPath(SubSeq(goas, 1, j)))
         \o FrameLeaves(goas, j + 1)

\* Inherited frames in binding order, then the record's own attributes.
ExpectedLeaves(h, r) == FrameLeaves(h.goas, 1) \o Leaves(r.Attrs, GroupPath(h.goas))

Positions(line, sym) == { i \in 1..Len(line) : line[i] = sym }

\* The position of the q-th sym of line.
Nth(line, sym, q) ==
    CHOOSE p \in Positions(line, sym) :
        Cardinality({ x \in Positions(line, sym) : x < p }) = q - 1

C6_AttributeOrder ==
    Wrote =>
       LET E == ExpectedLeaves(handlers[call.h], HandledRecord)
           line == WrittenLine
       IN /\ Cardinality(Positions(line, "=")) = Len(E)
          /\ \A q \in DOMAIN E :
                LET p == Nth(line, "=", q)
                IN SubSeq(line, p - Len(E[q].key), p - 1) = E[q].key

C6_Witness ==
    /\ Wrote
    /\ Len(handlers[call.h].goas) = 2
    /\ Len(FrameLeaves(handlers[call.h].goas, 1)) >= 4
    /\ Len(HandledRecord.Attrs) = 2
    /\ Len(ExpectedLeaves(handlers[call.h], HandledRecord)) >= 6
    /\ handlers[call.h].goas[1] # handlers[call.h].goas[2]

\* C7: every rendered key carries, right behind the separating space, the
\* dotted names of the group frames bound before it (all group frames for
\* the record's own attributes) and of the keyed group attributes around it.
C7_GroupPrefix ==
    Wrote =>
       LET E == ExpectedLeaves(handlers[call.h], HandledRecord)
           line == WrittenLine
       IN /\ Cardinality(Positions(line, "=")) = Len(E)
          /\ \A q \in DOMAIN E :
                LET p == Nth(line, "=", q)
                IN /\ SubSeq(line, p - Len(E[q].full), p - 1) = E[q].full
                   /\ line[p - Len(E[q].full) - 1] = " "

C7_Witness ==
    /\ Wrote
    /\ Len(handlers[call.h].goas) = 2
    /\ handlers[call.h].goas[1].group = <<"g">>
    /\ handlers[call.h].goas[2].attrs = <<Tag(<<"a">>), IntAttr(<<"b">>, 1)>>
    /\ Len(HandledRecord.Attrs) = 2
    /\ Occurrences(WrittenLine, <<" ", "g", ".", "b", "=", "1", " ", "g", ".">>) # {}

\* attrs without the attributes that are skipped: empty ones, groups without
\* children, groups whose children are all skipped.
RECURSIVE Prune(_)
Prune(attrs) ==
    IF attrs = <<>> THEN <<>>
    ELSE LET a == Head(attrs)
             here == IF a.Key = <<>> /\ a.Kind = "Any" THEN <<>>
                     ELSE IF a.Kind = "Group"
                          THEN (IF Prune(a.Group) = <<>> THEN <<>>
                                ELSE <<[a EXCEPT !.Group = Prune(a.Group)]>>)
                     ELSE <<a>>
         IN here \o Prune(Tail(attrs))

PruneHandler(h) ==
    [h EXCEPT !.goas = [j \in DOMAIN h.goas |-> [h.goas[j] EXCEPT !.attrs = Prune(@)]]]

\* C9: a skipped attribute (empty key and value, group without children,
\* group whose children are all skipped) adds nothing to the line, and every
\* rendered attribute is led by exactly one space.
C9_SkippedAddNothing ==
    Wrote =>
       LET h == handlers[call.h]
           r == HandledRecord
           line == WrittenLine
       IN /\ Cardinality(Positions(line, " ")) = Len(ExpectedLeaves(h, r))
          /\ \A p \in Positions(line, " ") : line[p + 1] \notin {" ", "\n"}
          /\ line = HandleBuf(PruneHandler(h), [r EXCEPT !.Attrs = Prune(@)], <<>>)

C9_Witness ==
    /\ Wrote
    /\ PruneHandler(handlers[call.h]) # handlers[call.h]
    /\ Prune(HandledRecord.Attrs) = <<>>
    /\ HandledRecord.Attrs # <<>>
    /\ Len(ExpectedLeaves(handlers[call.h], HandledRecord)) = 2
    /\ Cardinality(Positions(WrittenLine, " ")) = 2

\* C13: a Handle call passes the complete line to the sink in one Write,
\* returns what that Write returned, nil or the error itself, and leaves the
\* handlers as they were, whatever the writes before it returned.
C13_OneWriteErrorReturned ==
    [][call'.op = "Handle" =>
          /\ Len(call'.out) = 1
          /\ Len(call'.wret) = 1
          /\ call'.out[1] = HandleBuf(handlers[call'.h], call'.r, <<>>)
          /\ call'.err = call'.wret[1]
          /\ handlers' = handlers]_vars

C13_Witness ==
    /\ call.op = "Handle"
    /\ call.wret = <<Some("EPIPE")>>
    /\ call.err = Some("EPIPE")
    /\ Len(handlers[call.h].goas) > 0
    /\ bufPool # <<>>

\* C18: the bytes written for a record hold exactly one newline, the last byte.
C18_OneNewline == Wrote => Positions(WrittenLine, "\n") = {Len(WrittenLine)}

\* The value the last option function of opts setting field leaves, or default.
RECURSIVE LastSet(_, _, _)
LastSet(opts, field, default) ==
    IF opts = <<>> THEN default
    ELSE IF opts[Len(opts)].field = field THEN opts[Len(opts)].value
    ELSE LastSet(SubSeq(opts, 1, Len(opts) - 1), field, default)

\* Options given as g, with the two defaults applied.
Defaulted(g) ==
    Options(IF g.Level = Nil THEN Some(LevelInfo) ELSE g.Level, g.AddSource, g.TimeFormat,
            g.TimeInUTC,
            IF g.TimeAttributeFormat = <<>> THEN RFC3339Milli ELSE g.TimeAttributeFormat,
            g.TimeAttributeInUTC)

DocumentedDefaults == Options(Some(LevelInfo), FALSE, RFC3339Milli, FALSE, RFC3339Milli, FALSE)

FixedLevel(method) ==
    CASE method \in {"Debugf", "DebugfContext"} -> LevelDebug
      [] method \in {"Infof", "InfofContext"} -> LevelInfo
      [] method \in {"Warnf", "WarnfContext"} -> LevelWarn
      [] method \in {"Errorf", "ErrorfContext"} -> LevelError

\* The formats of the inputs, substituted.
Substituted(f) ==
    IF f.format = <<"usage ", "%d", "%%">> THEN <<"usage ", "98", "%">> ELSE <<"up">>

\* C15: a printf-style method of a disabled logger substitutes nothing and
\* emits nothing; of an enabled one it emits one record at the method's
\* level, with the substituted message and without attributes.  The methods
\* without a context give the background context to the check and the call.
C15_LogfEmitsWhenEnabled ==
    call.op = "Logf" =>
       LET L == IF call.method = "Logf" THEN call.level ELSE FixedLevel(call.method)
           min == handlers[call.h].opts.Level[1]
       IN /\ call.level = L
          /\ call.method \in {"Debugf", "Infof", "Warnf", "Errorf"} => call.ectx = Background
          /\ IF L >= min
             THEN /\ call.r # Nil
                  /\ call.r[1].Level = L
                  /\ call.r[1].Message = Substituted(call.f)
                  /\ call.r[1].Attrs = <<>>
                  /\ call.lctx = Some(call.ectx)
                  /\ Len(call.out) = 1
                  /\ call.out[1] = HandleBuf(handlers[call.h], call.r[1], <<>>)
             ELSE /\ call.r = Nil
                  /\ call.lctx = Nil
                  /\ call.out = <<>>

C15_Witness ==
    /\ call.op = "Logf"
    /\ call.method = "Warnf"
    /\ call.r # Nil
    /\ call.r[1].Message = <<"usage ", "98", "%">>
    /\ call.r[1].Level = LevelWarn
    /\ handlers[call.h].opts.Level = Some(LevelWarn)
    /\ handlers[call.h].goas # <<>>

StandardLevels == {LevelDebug, LevelInfo, LevelWarn, LevelError}

InWrite(g) == calls[g].pc > 0 /\ Stmt(g) = "WriteReturn"

\* Goroutine g is between its Lock and its Unlock.
AroundWrite(g) == calls[g].pc > 0 /\ Stmt(g) \in {"Write", "WriteReturn", "Unlock"}

\* The root of the lineage of handler i of the concurrent specification.
LineageRoot(i) == IF i = 2 THEN 1 ELSE i

\* C12: the handlers of a lineage share their mutex and their sink; at most
\* one Handle call of a lineage is inside Write; the mutex is held exactly
\* from before the Write until after it, not while rendering; what is
\* written is the whole line, in one Write.
C12_WriteSerialized ==
    /\ \A i \in Handlers :
          /\ handlers[i].mu = handlers[LineageRoot(i)].mu
          /\ handlers[i].out = handlers[LineageRoot(i)].out
    /\ \A i, j \in Handlers :
          LineageRoot(i) # LineageRoot(j) => handlers[i].mu # handlers[j].mu
    /\ \A g1, g2 \in Goroutines :
          (g1 # g2 /\ InWrite(g1) /\ InWrite(g2)) =>
             LineageRoot(calls[g1].h) # LineageRoot(calls[g2].h)
    /\ mutexes = { handlers[calls[g].h].mu : g \in { x \in Goroutines : AroundWrite(x) } }
    /\ \A g \in Goroutines :
          InWrite(g) => calls[g].out = <<HandleBuf(handlers[calls[g].h], calls[g].r, <<>>)>>

C12_Witness ==
    /\ InWrite("g1")
    /\ calls["g1"].h = 1
    /\ calls["g2"].pc > 0
    /\ calls["g2"].h = 2
    /\ Stmt("g2") = "Lock"
    /\ calls["g2"].bufp[1].data = HandleBuf(handlers[2], calls["g2"].r, <<>>)

PoolIds == { bufPool[k].id : k \in DOMAIN bufPool }

\* C14: every pooled buffer, and every buffer allocBuf has just returned, has
\* length 0 and a capacity from 1024 to 16384; freeBuf pools the buffer,
\* truncated, when its capacity is at most 16384 and drops it otherwise.
C14_PoolBuffers ==
    [][/\ \A k \in DOMAIN bufPool' :
             /\ bufPool'[k].data = <<>>
             /\ bufPool'[k].cap >= initialBufferSize
             /\ bufPool'[k].cap <= maxBufferSize
       /\ \A g \in Goroutines :
             /\ (calls[g].pc > 0 /\ Stmt(g) = "allocBuf" /\ calls'[g] # calls[g]) =>
                   /\ calls'[g].bufp[1].data = <<>>
                   /\ calls'[g].bufp[1].cap >= initialBufferSize
                   /\ calls'[g].bufp[1].cap <= maxBufferSize
             /\ (calls[g].pc > 0 /\ Stmt(g) = "freeBuf" /\ calls'[g] # calls[g]) =>
                   LET b == calls[g].bufp[1]
                   IN IF b.cap <= maxBufferSize
                      THEN bufPool' = Append(bufPool, [b EXCEPT !.data = <<>>])
                      ELSE bufPool' = bufPool]_vars

C14_Witness ==
    /\ \E k \in DOMAIN bufPool : bufPool[k].cap = maxBufferSize
    /\ \E g \in Goroutines :
          /\ calls[g].pc > 0
          /\ Stmt(g) = "freeBuf"
          /\ calls[g].bufp[1].cap > maxBufferSize
          /\ calls[g].bufp[1].data # <<>>

\* Goroutine g holds a buffer: it has taken one and not given it back.
Holds(g) == calls[g].pc > 0 /\ calls[g].bufp # <<>>

\* Goroutine g runs the statement stmt in this step.
Runs(g, stmt) == calls[g].pc > 0 /\ Stmt(g) = stmt /\ calls'[g] # calls[g]

\* C20: the buffer of a Handle call is held by no other call and is not in
\* the pool while the call goes on; a call gives its buffer back exactly
\* once, also when the write failed, and after Write has returned and the
\* mutex has been released.
C20_BufferPrivate ==
    [][\A g \in Goroutines :
          /\ (calls'[g].pc > 0 /\ calls'[g].bufp # <<>>) =>
                /\ calls'[g].bufp[1].id \notin { bufPool'[k].id : k \in DOMAIN bufPool' }
                /\ \A g2 \in Goroutines :
                      (g2 # g /\ calls'[g2].pc > 0 /\ calls'[g2].bufp # <<>>) =>
                         calls'[g2].bufp[1].id # calls'[g].bufp[1].id
          /\ Runs(g, "freeBuf") =>
                /\ calls[g].frees = 0
                /\ Len(calls[g].wret) = 1
                /\ ~calls[g].locked
          /\ (calls[g].pc > 0 /\ calls'[g].pc = 0) =>
                calls[g].frees + (IF Stmt(g) = "freeBuf" THEN 1 ELSE 0) = 1]_vars

C20_Witness ==
    /\ \E g \in Goroutines :
          /\ Holds(g)
          /\ Stmt(g) = "freeBuf"
          /\ calls[g].wret = <<Some("EPIPE")>>
          /\ \E g2 \in Goroutines :
                /\ g2 # g
                /\ InWrite(g2)
                /\ LineageRoot(calls[g2].h) = LineageRoot(calls[g].h)
                /\ calls[g2].bufp[1].id # calls[g].bufp[1].id
    /\ PoolIds = {}

\* The frames of handler h in the heap arrs: group names and slice headers.
Frames(arrs, h) == Elems(arrs, h.goas)

\* Goroutine g returns from withGroupOrAttrs in this step.
Returns(g) == calls[g].pc = Len(WithSteps) /\ calls'[g].pc = 0

\* C11: no step of a WithAttrs, WithGroup or Handle call, in any
\* interleaving, changes a handler that exists or the frames it has, and
\* the handler a With call returns has the frames of its parent followed by
\* its own frame, in an array no other handler and no other call uses.
C11_ParentNeverMutated ==
    [][/\ \A i \in Handlers :
             /\ handlers'[i] = handlers[i]
             /\ Frames(arrays', handlers'[i]) = Frames(arrays, handlers[i])
       /\ \A g \in Goroutines :
             Returns(g) =>
                LET new == handlers'[Len(handlers')]
                IN /\ Len(handlers') = Len(handlers) + 1
                   /\ new.opts = handlers[calls[g].h].opts
                   /\ Frames(arrays', new)
                         = Append(Frames(arrays, handlers[calls[g].h]), calls[g].goa)
                   /\ \A i \in Handlers : handlers[i].goas.arr # new.goas.arr
                   /\ \A g2 \in Goroutines :
                         (g2 # g /\ calls[g2].pc > 2) =>
                            calls[g2].h2[1].goas.arr # new.goas.arr]_vars

C11_Witness ==
    /\ \A g \in Goroutines :
          /\ calls[g].pc = Len(WithSteps)
          /\ calls[g].h = 1
          /\ Frames(arrays, calls[g].h2[1])
                = Append(Frames(arrays, handlers[1]), calls[g].goa)
    /\ calls["g1"].goa # calls["g2"].goa
    /\ calls["g1"].h2[1].goas.arr # calls["g2"].h2[1].goas.arr
    /\ call.op = "Handle"
    /\ call.h = 1

\* The handler h with, in each frame, the attributes bound when the frame
\* was made.
BoundView(arrs, h) ==
    [opts |-> h.opts, mu |-> h.mu, out |-> h.out,
     goas |-> [k \in 1..h.goas.len |-> groupOrAttrs(h.bound[k], arrs[h.goas.arr][k].group)]]

\* C19: every Handle call through a handler renders, for each inherited
\* frame, the attributes the slice held when WithAttrs was called, whatever
\* the caller has stored to the slice since.
C19_BoundAtWithTime ==
    call.op = "Handle" =>
       call.out = <<HandleBuf(BoundView(arrays, handlers[call.h]), call.r, <<>>)>>

\* A step in which a Handle call returns.
HandleStep == call'.op = "Handle" /\ <<call, bufPool>>' # <<call, bufPool>>

\* C21: a Handle call, with or without record attributes, its write failing
\* or not, leaves every handler (options, frames, mutex, sink) as it was and
\* keeps nothing of the record: what it leaves in the pool is empty
\* buffers; every buffer the pool can hand out is empty, so the line it
\* writes is that of the handler and the record alone, and the same as the
\* line of the call before when that one handled the same record through
\* the same handler.
C21_HandleReadOnly ==
    [][HandleStep =>
          /\ handlers' = handlers
          /\ \A k \in DOMAIN bufPool' : bufPool'[k].data = <<>>
          /\ \A a \in allocBuf(bufPool, {}) : a.buf.data = <<>>
          /\ call'.out = <<HandleBuf(handlers[call'.h], call'.r, <<>>)>>
          /\ (call.op = "Handle" /\ call.h = call'.h /\ call.r = call'.r) =>
                call'.out = call.out]_vars

C21_Witness ==
    /\ call.op = "Handle"
    /\ call.err # Nil
    /\ call.r.Attrs # <<>>
    /\ Len(handlers[call.h].goas) = MaxFrames
    /\ handlers[call.h].goas[MaxFrames].group # <<>>
    /\ bufPool # <<>>

\* The line starts with the timestamp and the level of the record, holds
\* the message and ends with the newline.
RenderedLine(h, r, line) ==
    LET front == TimeField(h, r) \o LevelString(r.Level)
    IN /\ Len(line) > Len(front) + Len(r.Message)
       /\ SubSeq(line, 1, Len(front)) = front
       /\ \E p \in DOMAIN line :
             /\ p + Len(r.Message) <= Len(line)
             /\ SubSeq(line, p + 1, p + Len(r.Message)) = r.Message
       /\ line[Len(line)] = "\n"

\* C22: a Handle call renders the record and makes its one Write whether or
\* not the handler is enabled for the level of the record and returns what
\* Write returned, while a Logf call, which asks Enabled first, writes
\* exactly when the handler is enabled.
C22_HandleIgnoresLevel ==
    /\ call.op = "Handle" =>
          /\ Len(call.out) = 1
          /\ RenderedLine(handlers[call.h], call.r, call.out[1])
          /\ call.err = call.wret[1]
    /\ call.op = "Logf" =>
          (Len(call.out) = 1 <=> call.level >= ConfiguredMinimum(<<handlers[call.h].opts>>))

C22_Witness ==
    /\ call.op = "Handle"
    /\ call.r.Level = 2
    /\ ConfiguredMinimum(<<handlers[call.h].opts>>) = LevelWarn
    /\ ~Enabled(handlers[call.h], call.r.Level)
    /\ Len(call.out) = 1
    /\ RenderedLine(handlers[call.h], call.r, call.out[1])

\* C23: the handlers NewSplitLevelLogHandler builds by separate NewHandler
\* calls have pairwise distinct mutexes, those for Debug, Info and Warn
\* with the one sink os.Stdout; a call holds the mutex of its own handler
\* only, so two calls are never inside Write through one handler, and a
\* call at its Lock is never kept out by a call that is inside Write
\* through another handler.
C23_ExclusionPerLineage ==
    /\ \A l1, l2 \in DOMAIN handlers : l1 # l2 => handlers[l1].mu # handlers[l2].mu
    /\ \A l \in DOMAIN handlers \cap {LevelDebug, LevelInfo, LevelWarn} :
          handlers[l].out = "os.Stdout"
    /\ mutexes = { handlers[calls[g].h].mu : g \in { x \in Goroutines : AroundWrite(x) } }
    /\ \A g1, g2 \in Goroutines :
          (g1 # g2 /\ InWrite(g1) /\ calls[g2].pc > 0) =>
             /\ InWrite(g2) => calls[g1].h # calls[g2].h
             /\ (Stmt(g2) = "Lock" /\ calls[g2].h # calls[g1].h) =>
                   handlers[calls[g2].h].mu \notin mutexes

C23_Witness ==
    /\ DOMAIN handlers = {LevelDebug, LevelInfo, LevelWarn, LevelError}
    /\ InWrite("g1")
    /\ InWrite("g2")
    /\ calls["g1"].h = LevelInfo
    /\ calls["g2"].h = LevelWarn
    /\ handlers[LevelInfo].out = handlers[LevelWarn].out
    /\ Cardinality(mutexes) = 2

====
